---- MODULE Spec2Model ----
(***************************************************************************)
(* Ada Local Node (src/main.py): the bridge/session subsystem.             *)
(*                                                                         *)
(* The node is one asyncio event loop.  A coroutine runs without           *)
(* interruption from one suspension point (an awaited network call, an     *)
(* awaited asynchronous tool handler, asyncio.sleep) to the next, so every *)
(* action below is one such run: it starts when the awaited thing returns  *)
(* and ends at the next await of the same task.  The outcome of the        *)
(* awaited thing (response, exception) is the action's input.              *)
(*                                                                         *)
(* Spec is the bridge: lifespan, register_node, poll_for_work and the      *)
(* /invoke push path, with the clock.  SpecLocal is the local protocol     *)
(* surface (mcp_message, invoke_tool, list_tools, health, bridge_status)   *)
(* served while the background tasks run.  SpecFair is lifespan with its   *)
(* two background tasks on an event loop that keeps running the poller.    *)
(***************************************************************************)
EXTENDS Integers, Sequences, FiniteSets, TLC

(* ----------------------------- bounds --------------------------------- *)

\* The clock runs from 0 to MaxTime; one unit is an hour.
MaxTime == 1
\* Longest list of jobs one pending-jobs response carries.
MaxBatch == 2
\* jobs_processed is capped: no job is taken in that could raise it beyond.
MaxJobs == 2

(* ----------------------- program constants ----------------------------- *)

\* Python's None for the string-valued fields (token, tool, job fields).
None == "<None>"
\* Python's None for the time-valued fields (token_expiry, last_sync).
NoTime == -1
\* timedelta(hours=1), in clock units.
TokenValidity == 1
\* No response of the dispatch service yet.
NoStatus == 0
\* The JSON-RPC error code of mcp_message.
MethodNotFound == -32601

\* The keys of TOOLS.
TOOLS == {"bark_tts", "n8n_trigger", "local_exec", "filesystem"}
\* The handlers that await (tool_n8n_trigger awaits client.post); the other
\* three run subprocess/file calls without ever yielding to the event loop.
AsyncTools == {"n8n_trigger"}

\* The tasks of the event loop: the two lifespan creates, and one request
\* handler of POST /invoke.
PushTasks == {"push"}
Tasks == {"reg", "poll"} \cup PushTasks

(* ------------------------------ inputs --------------------------------- *)

\* access_token values the token endpoint hands out.
Tokens == {"tokA"}

\* The location header of the /authorize response, cut into its pieces:
\* absent (""), a redirect without a code, a redirect with an empty code, a
\* redirect with a code.
Locations ==
    { <<>>,
      <<"cb?", "error=denied">>,
      <<"cb?", "code=", "&", "state=n">>,
      <<"cb?", "code=", "abc", "&", "state=n">> }

\* The argument mappings a caller may send, by what they do to a handler:
\* "ok" fits and the work succeeds, "fail" fits and the work fails inside
\* the handler, "badtype" has the right keys and a value of the wrong type,
\* "mismatch" lacks a required parameter or carries an unknown one.
ArgKinds == {"ok", "fail", "badtype", "mismatch"}

\* The jobs the dispatch service may send; a field that is None is missing.
JobInputs ==
    { [job_id |-> "j1", tool |-> "n8n_trigger", args |-> "ok"],
      [job_id |-> "j2", tool |-> "n8n_trigger", args |-> "mismatch"],
      [job_id |-> "j3", tool |-> "filesystem", args |-> "fail"],
      [job_id |-> "j4", tool |-> "nonexistent", args |-> "ok"],
      [job_id |-> "j5", tool |-> None, args |-> "ok"] }

NoJob == [job_id |-> None, tool |-> None, args |-> None]

RECURSIVE SeqsUpTo(_, _)
SeqsUpTo(S, n) ==
    IF n = 0 THEN {<<>>}
    ELSE LET shorter == SeqsUpTo(S, n - 1)
         IN shorter \cup {Append(q, x) : q \in shorter, x \in S}

(* ------------------------------ state ---------------------------------- *)

VARIABLES
    state,      \* the module-level dict `state`
    now,        \* datetime.now()
    lifecycle,  \* lifespan: "new", "serving", "stopped"
    pc,         \* per task: the await it is suspended at
    ret,        \* per task inside get_token: the request its caller sends next
    tok,        \* per task: the bearer token of its request in flight
    job,        \* per task inside process_job: the job
    result,     \* per task inside process_job: the local `result`
    jobs,       \* poll_for_work: the jobs of the batch not yet iterated
    push_resp,  \* per push task: the HTTP response of POST /invoke
    reg_status, \* register_node: resp.status_code of its POST, once it returned
    code,       \* per task inside get_token: the local `code`, once extracted
    batch,      \* poll_for_work: the list `jobs` as fetched (line 274), kept
                \* until the loop goes past its first job
    poll_status,\* poll_for_work: resp.status_code of this iteration's GET
    dropped,    \* poll_for_work: the jobs an exception of process_job left un-iterated
    reported,   \* the result reports the dispatch service has answered
    response    \* the last response of the local protocol surface

vars ==
    <<state, now, lifecycle, pc, ret, tok, job, result, jobs, push_resp, reg_status,
      code, batch, poll_status, dropped, reported, response>>

\* The part of the state a task's run reads and writes, as one value.
Cur ==
    [state |-> state, pc |-> pc, ret |-> ret, tok |-> tok, job |-> job,
     result |-> result, jobs |-> jobs, push_resp |-> push_resp,
     reg_status |-> reg_status, code |-> code, batch |-> batch,
     poll_status |-> poll_status, dropped |-> dropped, reported |-> reported]

Set(s) ==
    /\ state' = s.state
    /\ pc' = s.pc
    /\ ret' = s.ret
    /\ tok' = s.tok
    /\ job' = s.job
    /\ result' = s.result
    /\ jobs' = s.jobs
    /\ push_resp' = s.push_resp
    /\ reg_status' = s.reg_status
    /\ code' = s.code
    /\ batch' = s.batch
    /\ poll_status' = s.poll_status
    /\ dropped' = s.dropped
    /\ reported' = s.reported

\* The values of process_job's `result`: not set, a handler's payload, and
\* {"error": msg}.
NoResult == [kind |-> "none", error |-> None]
OkResult == [kind |-> "ok", error |-> None]
ErrResult(msg) == [kind |-> "error", error |-> msg]

\* What the caller of POST /invoke gets: nothing yet, the acknowledgment of
\* line 442, or the server's 500 for an exception the handler let through.
NoAck == [status |-> "none", job_id |-> None]
Accepted(j) == [status |-> "accepted", job_id |-> j.job_id]
InternalServerError == [status |-> "fault", job_id |-> None]

NoResponse == [endpoint |-> None]

Init ==
    /\ state = [token |-> None, token_expiry |-> NoTime, registered |-> FALSE,
                jobs_processed |-> 0, last_sync |-> NoTime, bridge_active |-> FALSE]
    /\ now = 0
    /\ lifecycle = "new"
    /\ pc = [t \in Tasks |-> IF t \in PushTasks THEN "idle" ELSE "none"]
    /\ ret = [t \in Tasks |-> None]
    /\ tok = [t \in Tasks |-> None]
    /\ job = [t \in Tasks |-> NoJob]
    /\ result = [t \in Tasks |-> NoResult]
    /\ jobs = <<>>
    /\ push_resp = [t \in PushTasks |-> NoAck]
    /\ reg_status = NoStatus
    /\ code = [t \in Tasks |-> None]
    /\ batch = <<>>
    /\ poll_status = NoStatus
    /\ dropped = 0
    /\ reported = 0
    /\ response = NoResponse

(* ---------------------------- get_token -------------------------------- *)

Truthy(x) == x # None /\ x # ""

\* Line 190 without its comparison with the clock.
CacheValidIgnoringExpiry(st) == Truthy(st.token) /\ st.token_expiry # NoTime

\* The test of line 190: a token is cached and its expiry lies ahead.
CacheValid(st) ==
    /\ Truthy(st.token)
    /\ st.token_expiry # NoTime
    /\ now < st.token_expiry

\* get_token, called by task t to send request k with the token: with a valid
\* cache it returns at once and the caller sends k; otherwise it posts to
\* /authorize and t is suspended there.
get_token(s, t, k) ==
    IF CacheValid(s.state)
    THEN [s EXCEPT !.tok[t] = s.state.token, !.ret[t] = k, !.pc[t] = k]
    ELSE [s EXCEPT !.ret[t] = k, !.pc[t] = "gt_authorize"]

\* Lines 211-214 on a location header given as its pieces:
\* location.split("code=")[1].split("&")[0], None without "code=".
RECURSIVE UpToAmp(_)
UpToAmp(q) ==
    IF q = <<>> \/ Head(q) = "&" THEN "" ELSE Head(q) \o UpToAmp(Tail(q))

ExtractCode(location) ==
    LET at == {i \in 1..Len(location) : location[i] = "code="}
    IN IF at = {} THEN None
       ELSE LET i == CHOOSE i \in at : \A j \in at : i <= j
            IN UpToAmp(SubSeq(location, i + 1, Len(location)))

(* --------------------------- tool handlers ----------------------------- *)

\* What calling TOOLS[tool]["fn"](**args) does before its first await:
\* "raise" (TypeError of the call itself, or of tool_local_exec's
\* `d in command` outside its try), "suspend" (the handler awaits), or the
\* handler's return value: every other failure is caught inside the handler
\* and returned as {"error": str(e)}.
tool_fn(tool, args) ==
    IF args = "mismatch" THEN "raise"
    ELSE IF tool \in AsyncTools THEN "suspend"
    ELSE IF tool = "local_exec" /\ args = "badtype" THEN "raise"
    ELSE IF args = "ok" THEN "ok"
    ELSE "error"

\* The value a handler that returned gives back.
HandlerResult(o) == IF o = "ok" THEN OkResult ELSE ErrResult("handler failed")

\* What an awaited handler ends with: tool_n8n_trigger catches every
\* exception of its request, so it returns a result or an error result.
AwaitOutcomes == {"ok", "error"}

(* ------------------- poll_for_work and process_job --------------------- *)

Clear(s, t) ==
    [s EXCEPT !.ret[t] = None, !.tok[t] = None, !.job[t] = NoJob,
              !.result[t] = NoResult, !.code[t] = None]

\* poll_for_work without its try: the exception ends the task.
PollExceptEndsLoop(s) ==
    [Clear(s, "poll") EXCEPT !.jobs = <<>>, !.batch = <<>>, !.pc["poll"] = "done"]

\* The except clause of poll_for_work (line 279): the rest of the batch is
\* dropped with the iteration, and the loop goes on to its sleep.
PollExcept(s) ==
    [Clear(s, "poll") EXCEPT !.jobs = <<>>, !.batch = <<>>, !.pc["poll"] = "sleep"]

\* An exception leaving process_job: into poll_for_work's except clause, or
\* out of invoke_from_railway, which has none.
ProcessJobRaise(s, t) ==
    IF t = "poll" THEN [PollExcept(s) EXCEPT !.dropped = Len(s.jobs)]
    ELSE [Clear(s, t) EXCEPT !.push_resp[t] = InternalServerError, !.pc[t] = "idle"]

\* process_job looking the tool up with a default: a job whose tool is no
\* key of TOOLS is run by the filesystem handler.
process_job_DefaultHandler(s, t, j) ==
    LET s1 == [s EXCEPT !.job[t] = j, !.result[t] = ErrResult("Unknown tool")]
        o == tool_fn(IF j.tool \in TOOLS THEN j.tool ELSE "filesystem", j.args)
    IN IF o = "raise" THEN ProcessJobRaise(s1, t)
       ELSE IF o = "suspend" THEN [s1 EXCEPT !.pc[t] = "pj_handler"]
       ELSE get_token([s1 EXCEPT !.result[t] = HandlerResult(o)], t, "pj_post")

\* process_job up to its first await (lines 286-296).
process_job(s, t, j) ==
    LET s1 == [s EXCEPT !.job[t] = j, !.result[t] = ErrResult("Unknown tool")]
    IN IF j.tool \notin TOOLS THEN get_token(s1, t, "pj_post")
       ELSE LET o == tool_fn(j.tool, j.args)
            IN IF o = "raise" THEN ProcessJobRaise(s1, t)
               ELSE IF o = "suspend" THEN [s1 EXCEPT !.pc[t] = "pj_handler"]
               ELSE get_token([s1 EXCEPT !.result[t] = HandlerResult(o)], t, "pj_post")

\* HiveJob(**job): the three required fields are there.
Parseable(j) == j.job_id # None /\ j.tool # None /\ j.args # None

\* The for loop taking the jobs from the end of the list.
PollLoopLastFirst(s) ==
    IF s.jobs = <<>>
    THEN [s EXCEPT !.state.last_sync = now, !.batch = <<>>, !.pc["poll"] = "sleep"]
    ELSE LET j == s.jobs[Len(s.jobs)]
             s1 == [s EXCEPT !.jobs = SubSeq(s.jobs, 1, Len(s.jobs) - 1),
                             !.batch = IF s.jobs = s.batch THEN s.batch ELSE <<>>]
         IN IF Parseable(j) THEN process_job(s1, "poll", j) ELSE PollExcept(s1)

\* The for loop of line 275 from the next job on, and line 278 after it.
PollLoop(s) ==
    IF s.jobs = <<>>
    THEN [s EXCEPT !.state.last_sync = now, !.batch = <<>>, !.pc["poll"] = "sleep"]
    ELSE LET j == Head(s.jobs)
             s1 == [s EXCEPT !.jobs = Tail(s.jobs),
                             !.batch = IF s.jobs = s.batch THEN s.batch ELSE <<>>]
         IN IF Parseable(j) THEN process_job(s1, "poll", j) ELSE PollExcept(s1)

\* process_job returns: to the for loop, or to invoke_from_railway's return.
ProcessJobReturn(s, t) ==
    IF t = "poll" THEN PollLoop(Clear(s, t))
    ELSE [Clear(s, t) EXCEPT !.push_resp[t] = Accepted(s.job[t]), !.pc[t] = "idle"]

\* An exception raised in get_token or by the request sent with its token,
\* caught by the try the call stands in.
Except(s, t) ==
    IF s.ret[t] = "reg_post" THEN [Clear(s, t) EXCEPT !.pc[t] = "done"]
    ELSE IF s.ret[t] = "poll_get" THEN PollExcept(s)
    ELSE ProcessJobReturn(s, t)

(* ------------------------------ lifespan ------------------------------- *)

\* Lines 327-329: the flag is set and the two tasks are created.
Startup ==
    /\ lifecycle = "new"
    /\ lifecycle' = "serving"
    /\ state' = [state EXCEPT !.bridge_active = TRUE]
    /\ pc' = [pc EXCEPT !["reg"] = "ready", !["poll"] = "ready"]
    /\ UNCHANGED <<now, ret, tok, job, result, jobs, push_resp, reg_status,
                   code, batch, poll_status, dropped, reported, response>>

\* Line 334.
Shutdown ==
    /\ lifecycle = "serving"
    /\ lifecycle' = "stopped"
    /\ state' = [state EXCEPT !.bridge_active = FALSE]
    /\ UNCHANGED <<now, pc, ret, tok, job, result, jobs, push_resp, reg_status,
                   code, batch, poll_status, dropped, reported, response>>

\* Time passes.
Tick ==
    /\ now < MaxTime
    /\ now' = now + 1
    /\ UNCHANGED <<state, lifecycle, pc, ret, tok, job, result, jobs, push_resp, reg_status,
                   code, batch, poll_status, dropped, reported, response>>

(* ------------------------- the bridge's tasks -------------------------- *)

\* register_node starts: line 241.
RegisterNode ==
    /\ pc["reg"] = "ready"
    /\ Set(get_token(Cur, "reg", "reg_post"))
    /\ UNCHANGED <<now, lifecycle, response>>

\* The loop of line 263 as `while True`.
PollIterateWhileTrue ==
    /\ pc["poll"] \in {"ready", "sleep"}
    /\ Set(get_token([Cur EXCEPT !.poll_status = NoStatus, !.dropped = 0],
                     "poll", "poll_get"))
    /\ UNCHANGED <<now, lifecycle, response>>

\* poll_for_work at the top of its loop (line 263), first or after the sleep.
PollIterate ==
    /\ pc["poll"] \in {"ready", "sleep"}
    /\ IF state.bridge_active
       THEN Set(get_token([Cur EXCEPT !.poll_status = NoStatus, !.dropped = 0],
                          "poll", "poll_get"))
       ELSE Set([Cur EXCEPT !.pc["poll"] = "done"])
    /\ UNCHANGED <<now, lifecycle, response>>

\* Lines 210-220 without the test of line 216: whatever was extracted is
\* posted to /token.
AuthorizedUnchecked(s, t, location) ==
    [s EXCEPT !.code[t] = ExtractCode(location), !.pc[t] = "gt_token"]

\* Lines 210-220 on the location header of the /authorize response: without
\* a code get_token raises, with one it posts the code to /token.
Authorized(s, t, location) ==
    LET c == ExtractCode(location)
    IN IF Truthy(c)
       THEN [s EXCEPT !.code[t] = c, !.pc[t] = "gt_token"]
       ELSE Except(s, t)

\* POST /authorize returns or raises (lines 195-220).
AuthorizeReturns(t) ==
    /\ pc[t] = "gt_authorize"
    /\ \/ Set(Except(Cur, t))
       \/ \E location \in Locations : Set(Authorized(Cur, t, location))
    /\ UNCHANGED <<now, lifecycle, response>>

\* What POST /token gives: an exception, a body that is no JSON object, a
\* JSON object with or without access_token.
TokenBodies == Tokens \cup {None}

\* Lines 230-236 on the JSON object of the token response.
CacheToken(s, t, access_token) ==
    [s EXCEPT !.state.token = access_token,
              !.state.token_expiry = now + TokenValidity,
              !.tok[t] = access_token,
              !.code[t] = None,
              !.pc[t] = s.ret[t]]

TokenReturns(t) ==
    /\ pc[t] = "gt_token"
    /\ \/ Set(Except(Cur, t))
       \/ \E access_token \in TokenBodies : Set(CacheToken(Cur, t, access_token))
    /\ UNCHANGED <<now, lifecycle, response>>

\* The status codes of the dispatch service.
Statuses == {200, 201, 500}

\* Lines 253-257 without the test of the status code.
RegisteredWhateverStatus(s, status) ==
    [Clear(s, "reg") EXCEPT !.state.registered = TRUE, !.reg_status = status,
                            !.pc["reg"] = "done"]

\* Lines 253-257.
Registered(s, status) ==
    IF status = 200
    THEN [Clear(s, "reg") EXCEPT !.state.registered = TRUE, !.reg_status = status,
                                 !.pc["reg"] = "done"]
    ELSE [Clear(s, "reg") EXCEPT !.reg_status = status, !.pc["reg"] = "done"]

\* POST /nodes/register returns or raises.
RegisterReturns ==
    /\ pc["reg"] = "reg_post"
    /\ \/ Set(Except(Cur, "reg"))
       \/ \E status \in Statuses : Set(Registered(Cur, status))
    /\ UNCHANGED <<now, lifecycle, response>>

\* The jobs in the node: being processed, or waiting in the batch.
InFlight == Cardinality({t \in Tasks : job[t] # NoJob}) + Len(jobs)
Room == MaxJobs - state.jobs_processed - InFlight

Batches == SeqsUpTo(JobInputs, MaxBatch)

\* GET /nodes/{id}/pending returns or raises (lines 273-278).  A body that
\* is no JSON, or no list of objects, raises in lines 274-276.
PendingReturns ==
    /\ pc["poll"] = "poll_get"
    /\ \/ Set(Except(Cur, "poll"))
       \/ \E status \in Statuses \ {200} :
            Set(PollLoop([Clear(Cur, "poll") EXCEPT !.poll_status = status]))
       \/ \E b \in Batches :
            /\ Len(b) <= Room
            /\ Set(PollLoop([Clear(Cur, "poll") EXCEPT !.poll_status = 200,
                                                       !.batch = b, !.jobs = b]))
    /\ UNCHANGED <<now, lifecycle, response>>

\* An awaited handler returns to process_job (line 292), which goes on to
\* report.
HandlerReturns(t) ==
    /\ pc[t] = "pj_handler"
    /\ \E o \in AwaitOutcomes :
         Set(get_token([Cur EXCEPT !.result[t] = HandlerResult(o)], t, "pj_post"))
    /\ UNCHANGED <<now, lifecycle, response>>

\* Line 306 as a read before the awaited POST and a write after it: of two
\* process_job calls that are at their POST together, the one that returns
\* first writes a value the other one overwrites.
CountedFromStaleRead(s) ==
    IF Cardinality({t \in Tasks : s.pc[t] = "pj_post"}) > 1
    THEN s
    ELSE [s EXCEPT !.state.jobs_processed = @ + 1]

\* Line 306.
Counted(s) == [s EXCEPT !.state.jobs_processed = @ + 1]

\* The dispatch service has answered one more result report.
Reported(s) == [s EXCEPT !.reported = @ + 1]

\* Line 306 moved behind the try: a report that raised is counted too.
ReportRaisedCounted(s, t) == Except(Counted(s), t)

\* Lines 307-308: the report raised, process_job prints and returns.
ReportRaised(s, t) == Except(s, t)

\* POST /nodes/{id}/result returns (whatever its status) or raises.
ResultReturns(t) ==
    /\ pc[t] = "pj_post"
    /\ \/ Set(ReportRaised(Cur, t))
       \/ Set(ProcessJobReturn(Counted(Reported(Cur)), t))
    /\ UNCHANGED <<now, lifecycle, response>>

\* POST /invoke with a job the HiveJob model accepts (lines 439-441).
InvokeFromRailway(t) ==
    /\ lifecycle = "serving"
    /\ pc[t] = "idle"
    /\ Room >= 1
    /\ \E j \in {x \in JobInputs : Parseable(x)} :
         Set(process_job([Cur EXCEPT !.push_resp[t] = NoAck], t, j))
    /\ UNCHANGED <<now, lifecycle, response>>

(* ---------------------- the local protocol surface -------------------- *)

\* str(x) inside an f-string.
PyStr(x) == IF x = None THEN "None" ELSE x

\* json.dumps of a handler's return value.
JsonDumps(r) ==
    IF r.kind = "error" THEN "{\"error\": \"" \o r.error \o "\"}" ELSE "{\"status\": \"ok\"}"

\* MCPResponse: result and error default to None.
NoPayload == [kind |-> "none"]
NoError == [code |-> 0, message |-> None]
MCPResponse(id, res, err) ==
    [status |-> 200, id |-> id, result |-> res, error |-> err]

\* An exception no handler catches: the server answers 500 with a plain
\* text body, no JSON-RPC envelope and no error object.
Unhandled == [status |-> 500, id |-> 0, result |-> NoPayload, error |-> NoError]

\* initialize advertising its tools only while the bridge is registered.
InitializeResultByState ==
    [kind |-> "initialize", protocolVersion |-> "2024-11-05",
     serverInfo |-> [name |-> "ada-local-wsl-local", version |-> "1.0.0"],
     capabilities |-> IF state.registered THEN [tools |-> <<>>] ELSE [tools |-> <<"offline">>]]

\* Lines 387-394.
InitializeResult ==
    [kind |-> "initialize", protocolVersion |-> "2024-11-05",
     serverInfo |-> [name |-> "ada-local-wsl-local", version |-> "1.0.0"],
     capabilities |-> [tools |-> <<>>]]

\* Lines 399-408, the names for the descriptors.
ToolsListResult == [kind |-> "tools", tools |-> TOOLS]

\* The end of a handler called with (tool, args): "raise", or the value it
\* returns, which for a handler that awaits is the awaited outcome o.
Invoke(tool, args, o) ==
    LET r == tool_fn(tool, args)
    IN IF r = "raise" THEN "raise"
       ELSE IF r = "suspend" THEN o
       ELSE r

\* params.get("arguments", {}): without arguments the handler is called
\* with none, and every handler has a required parameter.
Arguments(params) == IF params.arguments = None THEN "mismatch" ELSE params.arguments

\* Lines 415-419 calling the handler of the first tool instead of returning.
ToolNotFoundFallsThrough(req) ==
    [called |-> "bark_tts",
     resp |-> MCPResponse(req.id,
                [kind |-> "content", type |-> "text", text |-> JsonDumps(OkResult)],
                NoError)]

\* Lines 415-419: the answer to tools/call with a name that is no key of TOOLS.
ToolNotFound(req) ==
    [called |-> None,
     resp |-> MCPResponse(req.id, NoPayload,
                [code |-> MethodNotFound,
                 message |-> "Tool not found: " \o PyStr(req.params.name)])]

\* mcp_message (lines 383-432) on request req; o is what an awaited handler
\* ends with.  `called` is the handler the request invoked, if any.
mcp_message(req, o) ==
    IF req.method = "initialize"
    THEN [called |-> None, resp |-> MCPResponse(req.id, InitializeResult, NoError)]
    ELSE IF req.method = "tools/list"
    THEN [called |-> None, resp |-> MCPResponse(req.id, ToolsListResult, NoError)]
    ELSE IF req.method = "tools/call"
    THEN IF ~req.params.present
         THEN [called |-> None, resp |-> Unhandled]
         ELSE IF req.params.name \notin TOOLS
         THEN ToolNotFound(req)
         ELSE LET r == Invoke(req.params.name, Arguments(req.params), o)
              IN IF r = "raise"
                 THEN [called |-> req.params.name, resp |-> Unhandled]
                 ELSE [called |-> req.params.name,
                       resp |-> MCPResponse(req.id,
                                  [kind |-> "content", type |-> "text",
                                   text |-> JsonDumps(HandlerResult(r))],
                                  NoError)]
    ELSE [called |-> None,
          resp |-> MCPResponse(req.id, NoPayload,
                     [code |-> MethodNotFound,
                      message |-> "Unknown method: " \o req.method])]

\* invoke_tool (lines 373-380): HTTPException(404) is answered as
\* {"detail": ...}; the result is returned as {"result": ...}.
invoke_tool(call, o) ==
    IF call.tool \notin TOOLS
    THEN [called |-> None,
          resp |-> [status |-> 404, id |-> 0, result |-> NoPayload,
                    error |-> [code |-> 404, message |-> "Tool not found: " \o call.tool]]]
    ELSE LET r == Invoke(call.tool, call.args, o)
         IN IF r = "raise"
            THEN [called |-> call.tool, resp |-> Unhandled]
            ELSE [called |-> call.tool,
                  resp |-> [status |-> 200, id |-> 0,
                            result |-> [kind |-> "result", result |-> HandlerResult(r)],
                            error |-> NoError]]

\* The requests of the local clients.  A tools/call request comes without
\* params, with a name that is no tool or with no name at all, and with a
\* tool's name and arguments of each kind (None: no arguments given).
NoParams == [present |-> FALSE, name |-> None, arguments |-> None]
Params(name, arguments) == [present |-> TRUE, name |-> name, arguments |-> arguments]
McpParams ==
    { NoParams,
      Params("nonexistent", "ok"),
      Params(None, "ok"),
      Params("n8n_trigger", "ok"),
      Params("n8n_trigger", None),
      Params("local_exec", "badtype"),
      Params("local_exec", "fail") }
McpRequests ==
    [method : {"initialize", "tools/list", "resources/list"}, id : {1}, params : {NoParams}]
    \cup [method : {"tools/call"}, id : {1}, params : McpParams]
ToolCalls ==
    { [tool |-> "nonexistent", args |-> "ok"],
      [tool |-> "n8n_trigger", args |-> "ok"],
      [tool |-> "n8n_trigger", args |-> "mismatch"],
      [tool |-> "local_exec", args |-> "ok"],
      [tool |-> "local_exec", args |-> "badtype"] }

McpMessage ==
    /\ lifecycle = "serving"
    /\ \E req \in McpRequests, o \in AwaitOutcomes :
         response' = [endpoint |-> "mcp_message", req |-> req] @@ mcp_message(req, o)
    /\ UNCHANGED <<state, now, lifecycle, pc, ret, tok, job, result, jobs, push_resp, reg_status,
                   code, batch, poll_status, dropped, reported>>

InvokeTool ==
    /\ lifecycle = "serving"
    /\ \E call \in ToolCalls, o \in AwaitOutcomes :
         response' = [endpoint |-> "invoke_tool", req |-> call] @@ invoke_tool(call, o)
    /\ UNCHANGED <<state, now, lifecycle, pc, ret, tok, job, result, jobs, push_resp, reg_status,
                   code, batch, poll_status, dropped, reported>>

\* NODE_ID and CAPABILITIES (lines 26 and 33).
NODE_ID == "wsl-local"
CAPABILITIES == <<"bark-tts", "n8n", "local-exec", "filesystem">>

\* health (lines 349-356).
health ==
    [status |-> "healthy", node_id |-> NODE_ID,
     bridge |-> IF state.registered THEN "connected" ELSE "disconnected",
     jobs_processed |-> state.jobs_processed,
     last_sync |-> state.last_sync]

\* bridge_status (lines 445-454).
bridge_status ==
    [node_id |-> NODE_ID, capabilities |-> CAPABILITIES,
     registered |-> state.registered,
     jobs_processed |-> state.jobs_processed,
     last_sync |-> state.last_sync,
     uptime |-> "healthy"]

\* list_tools (lines 359-370), the names for the descriptors.
list_tools == [tools |-> TOOLS]

\* GET /health counted as a sync: the handler writes last_sync.
HealthTouchesSync ==
    /\ lifecycle = "serving"
    /\ response' = [endpoint |-> "health", resp |-> health]
    /\ state' = [state EXCEPT !.last_sync = now]
    /\ UNCHANGED <<now, lifecycle, pc, ret, tok, job, result, jobs, push_resp, reg_status,
                   code, batch, poll_status, dropped, reported>>

Health ==
    /\ lifecycle = "serving"
    /\ response' = [endpoint |-> "health", resp |-> health]
    /\ UNCHANGED <<state, now, lifecycle, pc, ret, tok, job, result, jobs, push_resp, reg_status,
                   code, batch, poll_status, dropped, reported>>

BridgeStatus ==
    /\ lifecycle = "serving"
    /\ response' = [endpoint |-> "status", resp |-> bridge_status]
    /\ UNCHANGED <<state, now, lifecycle, pc, ret, tok, job, result, jobs, push_resp, reg_status,
                   code, batch, poll_status, dropped, reported>>

ListTools ==
    /\ lifecycle = "serving"
    /\ response' = [endpoint |-> "list_tools", resp |-> list_tools]
    /\ UNCHANGED <<state, now, lifecycle, pc, ret, tok, job, result, jobs, push_resp, reg_status,
                   code, batch, poll_status, dropped, reported>>

\* The bridge: lifespan, the two background tasks and the push path.
Next ==
    \/ Startup
    \/ Shutdown
    \/ Tick
    \/ RegisterNode
    \/ PollIterate
    \/ \E t \in Tasks : AuthorizeReturns(t)
    \/ \E t \in Tasks : TokenReturns(t)
    \/ RegisterReturns
    \/ PendingReturns
    \/ \E t \in Tasks : HandlerReturns(t)
    \/ \E t \in Tasks : ResultReturns(t)
    \/ \E t \in PushTasks : InvokeFromRailway(t)

Spec == Init /\ [][Next]_vars

\* lifespan and its two background tasks.
NextBridge ==
    \/ Startup
    \/ Shutdown
    \/ RegisterNode
    \/ PollIterate
    \/ \E t \in Tasks : AuthorizeReturns(t)
    \/ \E t \in Tasks : TokenReturns(t)
    \/ RegisterReturns
    \/ PendingReturns
    \/ \E t \in Tasks : HandlerReturns(t)
    \/ \E t \in Tasks : ResultReturns(t)

\* The background tasks on an event loop that runs the poller whenever it
\* can run: the network calls poll_for_work awaits return or raise, the
\* awaited handler returns, and asyncio.sleep returns.
SpecFair ==
    /\ Init /\ [][NextBridge]_vars
    /\ WF_vars(PollIterate)
    /\ WF_vars(AuthorizeReturns("poll"))
    /\ WF_vars(TokenReturns("poll"))
    /\ WF_vars(PendingReturns)
    /\ WF_vars(HandlerReturns("poll"))
    /\ WF_vars(ResultReturns("poll"))

\* The local protocol surface, served while the background tasks run.
NextLocal ==
    \/ Startup
    \/ Shutdown
    \/ RegisterNode
    \/ PollIterate
    \/ \E t \in Tasks : AuthorizeReturns(t)
    \/ \E t \in Tasks : TokenReturns(t)
    \/ RegisterReturns
    \/ PendingReturns
    \/ \E t \in Tasks : HandlerReturns(t)
    \/ \E t \in Tasks : ResultReturns(t)
    \/ McpMessage
    \/ InvokeTool
    \/ ListTools
    \/ Health
    \/ BridgeStatus

SpecLocal == Init /\ [][NextLocal]_vars

(* ============================== claims ================================= *)

\* A task that has posted to /authorize or /token and not yet got the answer.
Acquiring == {t \in Tasks : pc[t] \in {"gt_authorize", "gt_token"}}
\* A task whose request with a bearer token is in flight.
AuthedPcs == {"reg_post", "poll_get", "pj_post"}

\* C1: single-flight credential acquisition.  The get_token calls that start
\* while no valid credential is cached share one authorize+token exchange:
\* at no time are two exchanges in flight.
C1_SingleFlight == Cardinality(Acquiring) <= 1

\* C2: expiry-aware reuse.  A get_token call made while a token is cached
\* and the time is before token_expiry posts nothing to /authorize and hands
\* its caller the cached token; an authenticated request sent while no such
\* token is cached is sent by a call that has just done the exchange.
C2_Fresh ==
    /\ state.token \notin {None, ""}
    /\ state.token_expiry # NoTime
    /\ now < state.token_expiry
\* Task t sends a request with a bearer token in this step: it comes to wait
\* for one, or (the poller reporting job after job) waits for the next one.
C2_Sends(t) ==
    /\ pc'[t] \in AuthedPcs
    /\ pc[t] # pc'[t] \/ (t = "poll" /\ jobs' # jobs)
C2_ExpiryAwareReuse ==
    [][\A t \in Tasks :
         /\ (pc[t] # "gt_authorize" /\ pc'[t] = "gt_authorize") => ~C2_Fresh
         /\ (C2_Sends(t) /\ pc[t] # "gt_token") => C2_Fresh /\ tok'[t] = state.token
         /\ (C2_Sends(t) /\ ~C2_Fresh) => pc[t] = "gt_token"]_vars
\* The poller's second fetch goes out with the token cached before, while
\* nobody is acquiring one.
C2_Witness ==
    /\ pc["poll"] = "poll_get"
    /\ state.last_sync # NoTime
    /\ C2_Fresh
    /\ tok["poll"] = state.token
    /\ Acquiring = {}
    /\ pc["reg"] = "done"

\* C3: a handler failure is contained by the job dispatcher.  process_job
\* does not raise to its caller: a job pushed to /invoke is never answered
\* with the server's fault for an exception that escaped the handler.
C3_HandlerFailureContained ==
    \A t \in PushTasks : push_resp[t] # InternalServerError

\* C4: a request of the synchronous surface that names a registered tool or
\* is malformed is answered with a structured response, never with the
\* server's fault for an escaped exception.
C4_StructuredErrorResponse ==
    response.endpoint \in {"mcp_message", "invoke_tool"} => response.resp # Unhandled

\* C5: poll loop resilience.  poll_for_work ends only at the top of its loop
\* with bridge_active false; whatever an iteration fails with, the loop goes
\* on to its sleep; and after the sleep, with bridge_active true, it starts
\* a new iteration with get_token for the pending-jobs fetch.
C5_InIteration == {"gt_authorize", "gt_token", "poll_get", "pj_handler", "pj_post"}
C5_PollLoopResilience ==
    [][/\ (pc["poll"] # "done" /\ pc'["poll"] = "done")
            => pc["poll"] \in {"ready", "sleep"} /\ ~state.bridge_active
       /\ (pc["poll"] \in C5_InIteration /\ pc'["poll"] \notin C5_InIteration)
            => pc'["poll"] = "sleep"
       /\ (pc["poll"] = "sleep" /\ pc'["poll"] # "sleep" /\ state.bridge_active)
            => pc'["poll"] \in {"gt_authorize", "poll_get"} /\ ret'["poll"] = "poll_get"
      ]_vars
\* The poller is in a new iteration after a failed one: it has processed a
\* job (the push path was never used), so a batch came in, and no iteration
\* has reached line 278, so the iteration of that batch failed.
C5_Witness ==
    /\ pc["poll"] \in {"gt_authorize", "poll_get"}
    /\ ret["poll"] = "poll_get"
    /\ state.bridge_active
    /\ state.last_sync = NoTime
    /\ state.jobs_processed > 0
    /\ \A t \in PushTasks : pc[t] = "idle" /\ push_resp[t] = NoAck

\* C6: asynchronous decoupling of the push path.  While a pushed job is in
\* the node (its handler running, its report being made), the caller of
\* POST /invoke has its acknowledgment already.
C6_AckWithoutWaiting ==
    \A t \in PushTasks : job[t] # NoJob => push_resp[t] = Accepted(job[t])

\* C7: tools/call with a name that is no key of the registry is answered
\* with error code -32601 and "Tool not found: <name>", without a result,
\* and invokes no handler.
C7_UnknownTool ==
    (/\ response.endpoint = "mcp_message"
     /\ response.req.method = "tools/call"
     /\ response.req.params.present
     /\ response.req.params.name \notin TOOLS)
    => /\ response.resp.status = 200
       /\ response.resp.error.code = -32601
       /\ response.req.params.name # None
            => response.resp.error.message = "Tool not found: " \o response.req.params.name
       /\ response.resp.result = NoPayload
       /\ response.called = None
C7_Witness ==
    /\ response.endpoint = "mcp_message"
    /\ response.req.method = "tools/call"
    /\ response.req.params.name = "nonexistent"
    /\ response.resp.error.message = "Tool not found: nonexistent"

\* C8: register_node never raises, and state["registered"] is true only once
\* POST /nodes/register has returned a successful acknowledgment; on every
\* failure it stays false.
C8_RegisteredOnlyOnSuccess ==
    /\ pc["reg"] \in {"none", "ready", "gt_authorize", "gt_token", "reg_post", "done"}
    /\ state.registered => pc["reg"] = "done" /\ reg_status \in 200..299
    /\ pc["reg"] # "done" => reg_status = NoStatus
C8_Witness == state.registered /\ reg_status = 200
\* The failure paths: the task is over after an exception or a refusal.
C8_WitnessFailure == pc["reg"] = "done" /\ reg_status \notin 200..299 /\ ~state.registered

\* C9: get_token returns a present token cached with an expiry, or fails:
\* no request goes out with an absent token, and no absent token is cached
\* with an expiry.
C9_TokenPresent ==
    /\ \A t \in Tasks : pc[t] \in AuthedPcs => tok[t] \notin {None, ""}
    /\ state.token_expiry # NoTime => state.token \notin {None, ""}

\* C10: initialize returns the same protocol version and the capability
\* shape {tools: {}} in every state.
C10_InitializeConstant ==
    (response.endpoint = "mcp_message" /\ response.req.method = "initialize")
    => /\ response.resp.status = 200
       /\ response.resp.result.protocolVersion = "2024-11-05"
       /\ response.resp.result.capabilities = [tools |-> <<>>]
       /\ response.resp.error = NoError
\* initialize answered on a node that is registered, has polled and has a
\* token cached.
C10_Witness ==
    /\ response.endpoint = "mcp_message"
    /\ response.req.method = "initialize"
    /\ state.registered
    /\ state.last_sync # NoTime
    /\ state.token # None
    /\ state.jobs_processed > 0
\* initialize answered on a fresh node.
C10_WitnessFresh ==
    /\ response.endpoint = "mcp_message"
    /\ response.req.method = "initialize"
    /\ ~state.registered
    /\ state.token = None
    /\ state.jobs_processed = 0

\* C11: job isolation within a poll batch.  Every job of a batch is handed
\* to process_job in the iteration that fetched it, whatever an earlier job
\* of the batch did: no exception of a process_job call leaves jobs of the
\* batch un-iterated.
C11_JobIsolation == dropped = 0

\* C12: jobs_processed is incremented exactly once per process_job call,
\* after the report was attempted, whether the report succeeded or failed.
\* process_job returns to its caller in this step: the push handler gets to
\* its acknowledgment, the poller leaves the report of a job for the next
\* job or for the end of the iteration.
C12_Returns(t) ==
    IF t \in PushTasks
    THEN pc[t] # "idle" /\ pc'[t] = "idle" /\ push_resp'[t].status = "accepted"
    ELSE /\ t = "poll"
         /\ ret[t] = "pj_post"
         /\ jobs' # jobs \/ pc'[t] = "sleep"
\* The claim as stated: every return of process_job counts one job, and
\* nothing else counts.
C12_IncrementPerCall ==
    [][/\ \A t \in Tasks :
            C12_Returns(t) => state'.jobs_processed = state.jobs_processed + 1
       /\ state'.jobs_processed # state.jobs_processed => \E t \in Tasks : C12_Returns(t)
      ]_vars
\* C12, amended: jobs_processed is incremented exactly once per process_job
\* call whose POST /result returned a response (whatever its status), in the
\* step that call returns from the POST; a call whose get_token or POST
\* raised leaves the counter as it was.
C12_IncrementPerReport ==
    [][(state'.jobs_processed # state.jobs_processed \/ reported' # reported)
       => /\ state'.jobs_processed = state.jobs_processed + 1
          /\ reported' = reported + 1
          /\ \E t \in Tasks : pc[t] = "pj_post" /\ C12_Returns(t)
      ]_vars
\* process_job has returned to invoke_from_railway, which acknowledged the
\* job, and the job was not counted: its report was attempted and raised.
C12_Witness ==
    /\ \A t \in PushTasks : pc[t] = "idle" /\ push_resp[t].status = "accepted"
    /\ state.jobs_processed = 0
    /\ reported = 0
    /\ pc["poll"] \in {"none", "ready"}
\* A job reported and counted.
C12_WitnessCounted ==
    /\ \A t \in PushTasks : pc[t] = "idle" /\ push_resp[t].status = "accepted"
    /\ state.jobs_processed = 1
    /\ reported = 1
    /\ pc["poll"] \in {"none", "ready"}

\* C13: last_sync is set at the end of every iteration whose pending-jobs
\* fetch returned a success response, and an iteration whose poll failed
\* (no response, or a response that is no success) leaves it as it was.
C13_LastSyncOnSuccess ==
    [][(pc["poll"] \in C5_InIteration /\ pc'["poll"] = "sleep")
       => IF poll_status' \in 200..299
          THEN state'.last_sync = now
          ELSE state'.last_sync = state.last_sync
      ]_vars

\* C14: at most one report per dispatch.  Once the POST /result of a
\* process_job call has returned or raised, the call is over: the task goes
\* on to nothing of that job again (no second report, no second handler
\* run), only to the next job of the batch; and at the end of an iteration
\* every job of its batch has been handled by process_job once.
C14_InProcessJob == {"gt_authorize", "gt_token", "pj_handler", "pj_post"}
C14_NoRetry(t) ==
    (pc[t] = "pj_post" /\ pc'[t] \in C14_InProcessJob)
    => \/ pc'[t] = pc[t] /\ job'[t] = job[t] /\ tok'[t] = tok[t] /\ jobs' = jobs
       \/ t = "poll" /\ jobs # <<>> /\ jobs' = Tail(jobs) /\ job'[t] = Head(jobs)
C14_AtMostOneReport ==
    [][/\ \A t \in Tasks : C14_NoRetry(t)
       /\ (pc["poll"] \in C5_InIteration /\ pc'["poll"] = "sleep") => dropped' = 0
      ]_vars
\* Its first half alone.
C14_NoRetryOnly == [][\A t \in Tasks : C14_NoRetry(t)]_vars

\* C15: sequential in-order dispatch within a batch.  The poller hands the
\* jobs of a batch to process_job one at a time in the order of the list:
\* the first job it takes is the head of the fetched list, and it takes the
\* next one, the head of what is left, only in the step in which the report
\* attempt of the job before ends (its handler has returned before that).
C15_Takes ==
    /\ job'["poll"] # NoJob
    /\ job'["poll"] # job["poll"] \/ jobs' # jobs
C15_InOrder ==
    [][C15_Takes
       => IF pc["poll"] = "poll_get"
          THEN /\ batch' # <<>>
               /\ job'["poll"] = Head(batch')
               /\ jobs' = Tail(batch')
          ELSE /\ job["poll"] # NoJob
               /\ ret["poll"] = "pj_post"
               /\ pc["poll"] \in {"gt_authorize", "gt_token", "pj_post"}
               /\ jobs # <<>>
               /\ job'["poll"] = Head(jobs)
               /\ jobs' = Tail(jobs)
      ]_vars
\* The poller reports the second job of a batch, j1, after the first one was
\* reported and counted (the push path was never used).
C15_Witness ==
    /\ pc["poll"] = "pj_post"
    /\ job["poll"].job_id = "j1"
    /\ batch = <<>>
    /\ state.jobs_processed = 1
    /\ \A t \in PushTasks : pc[t] = "idle" /\ push_resp[t] = NoAck

\* C16: cooperative shutdown.  bridge_active goes from false to true at
\* startup and from true to false at shutdown, and nowhere else; with the
\* flag false the poller at the top of its loop starts no iteration but
\* ends; the poll or job in flight at shutdown goes on as it would have
\* (nothing ends the task in the middle of an iteration); and, the network
\* calls and the sleep returning, the poller does end after shutdown.
C16_LoopTop == {"ready", "sleep"}
C16_Safety ==
    [][/\ (~state.bridge_active /\ state'.bridge_active)
            => lifecycle = "new" /\ lifecycle' = "serving"
       /\ (state.bridge_active /\ ~state'.bridge_active)
            => lifecycle = "serving" /\ lifecycle' = "stopped"
       /\ (~state.bridge_active /\ pc["poll"] \in C16_LoopTop /\ pc'["poll"] # pc["poll"])
            => pc'["poll"] = "done"
       /\ (pc["poll"] \in C5_InIteration /\ pc'["poll"] \notin C5_InIteration)
            => pc'["poll"] = "sleep"
       /\ pc["poll"] = "done" => pc'["poll"] = "done"
      ]_vars
C16_CooperativeShutdown ==
    /\ C16_Safety
    /\ (lifecycle = "stopped") ~> (pc["poll"] = "done")
\* After shutdown the poller, which had polled and processed a job, has
\* ended, and the flag is false.
C16_Witness ==
    /\ lifecycle = "stopped"
    /\ ~state.bridge_active
    /\ pc["poll"] = "done"
    /\ state.jobs_processed = 1
    /\ state.last_sync # NoTime
\* Shutdown has come while a job of the poller is being reported.
C16_WitnessInFlight ==
    /\ lifecycle = "stopped"
    /\ pc["poll"] = "pj_post"
    /\ ~state.bridge_active

\* C17: a job whose tool is no key of the registry.  process_job invokes no
\* handler for it, its result is {"error": "Unknown tool"}, and the task
\* goes on to report that result for that job: it is on its way to POST
\* /result (getting the token, or waiting for the POST's answer).
C17_UnknownToolJob ==
    \A t \in Tasks :
        (job[t] # NoJob /\ job[t].tool \notin TOOLS)
        => /\ pc[t] # "pj_handler"
           /\ result[t] = [kind |-> "error", error |-> "Unknown tool"]
           /\ ret[t] = "pj_post"
           /\ pc[t] \in {"gt_authorize", "gt_token", "pj_post"}
\* The error result of job j4, whose tool is "nonexistent", is being posted
\* by the poller and by the push handler.
C17_Witness ==
    \A t \in {"poll"} \cup PushTasks :
        /\ pc[t] = "pj_post"
        /\ job[t].job_id = "j4" /\ job[t].tool = "nonexistent"
        /\ result[t].error = "Unknown tool"

\* C18: the authorization response without a code.  A task leaves its wait
\* for /authorize for the token exchange only with a code in hand; when it
\* leaves it otherwise (no code, or no response), get_token has failed: the
\* cached token and its expiry are as before, and the caller has taken its
\* failure path without sending the request the token was for.
C18_Leaves(t) ==
    /\ pc[t] = "gt_authorize"
    /\ pc'[t] # pc[t] \/ (t = "poll" /\ jobs' # jobs)
C18_NoCodeFails ==
    [][\A t \in Tasks :
         /\ pc'[t] = "gt_token" => code'[t] \notin {None, ""}
         /\ (C18_Leaves(t) /\ pc'[t] # "gt_token")
              => /\ state'.token = state.token
                 /\ state'.token_expiry = state.token_expiry
                 /\ ret[t] = "reg_post"
                      => pc'[t] = "done" /\ reg_status' = NoStatus /\ ~state'.registered
                 /\ ret[t] = "poll_get"
                      => pc'[t] = "sleep" /\ poll_status' = NoStatus
                 /\ ret[t] = "pj_post"
                      => state'.jobs_processed = state.jobs_processed /\ reported' = reported
      ]_vars
\* The poller asleep after an iteration that started when the cached token
\* had expired (the iteration before ended at the expiry time) and ended
\* without a response: its get_token failed, and the expired token and its
\* expiry are still the cached ones.
C18_Witness ==
    /\ pc["poll"] = "sleep"
    /\ poll_status = NoStatus
    /\ state.token = "tokA"
    /\ state.token_expiry = now
    /\ state.last_sync = now

\* C19: the frame of the bridge state.  registered is changed only by a
\* step of register_node, last_sync only by a step of poll_for_work ending
\* an iteration, jobs_processed only by a step of a process_job call at its
\* report; a step of a local handler (mcp_message, list_tools, invoke_tool,
\* health, bridge_status) leaves registered, jobs_processed, last_sync and
\* bridge_active as they were; and health and bridge_status answer with the
\* values the state holds at that moment.
C19_Answered == response' # response
C19_Frame ==
    [][/\ state'.registered # state.registered
            => pc["reg"] = "reg_post" /\ pc'["reg"] = "done"
       /\ state'.last_sync # state.last_sync
            => pc["poll"] \in C5_InIteration /\ pc'["poll"] = "sleep"
       /\ state'.jobs_processed # state.jobs_processed
            => \E t \in Tasks : pc[t] = "pj_post" /\ C12_Returns(t)
       /\ C19_Answered
            => /\ state'.registered = state.registered
               /\ state'.jobs_processed = state.jobs_processed
               /\ state'.last_sync = state.last_sync
               /\ state'.bridge_active = state.bridge_active
       /\ (C19_Answered /\ response'.endpoint = "health")
            => /\ response'.resp.bridge = "connected" <=> state.registered
               /\ response'.resp.bridge = "disconnected" <=> ~state.registered
               /\ response'.resp.jobs_processed = state.jobs_processed
               /\ response'.resp.last_sync = state.last_sync
       /\ (C19_Answered /\ response'.endpoint = "status")
            => /\ response'.resp.registered = state.registered
               /\ response'.resp.jobs_processed = state.jobs_processed
               /\ response'.resp.last_sync = state.last_sync
      ]_vars
\* health answered on a node that is registered, has polled and has
\* processed a job, with those values.
C19_Witness ==
    /\ response.endpoint = "health"
    /\ state.registered /\ response.resp.bridge = "connected"
    /\ state.jobs_processed = 1 /\ response.resp.jobs_processed = 1
    /\ state.last_sync # NoTime /\ response.resp.last_sync = state.last_sync
    /\ state.bridge_active
\* tools/call answered while the state holds the same values.
C19_WitnessCall ==
    /\ response.endpoint = "mcp_message"
    /\ response.req.method = "tools/call"
    /\ response.called = "n8n_trigger"
    /\ state.registered
    /\ state.jobs_processed = 1
    /\ state.last_sync # NoTime

\* C20: no lost counter updates.  Whatever the interleaving of the
\* process_job calls of the poll path and of the push path, jobs_processed
\* never goes down, and after every step it is the number of reports
\* answered so far, each of which was followed by its call's increment.
C20_NoLostUpdates ==
    [][/\ state'.jobs_processed >= state.jobs_processed
       /\ state'.jobs_processed = reported'
      ]_vars
\* A job of the poller and a pushed job are at their POST /result together.
C20_Witness ==
    /\ pc["poll"] = "pj_post"
    /\ \A t \in PushTasks : pc[t] = "pj_post"
    /\ job["poll"] # NoJob
\* Both paths have reported and counted a job.
C20_WitnessBoth ==
    /\ state.jobs_processed = 2
    /\ \A t \in PushTasks : push_resp[t].status = "accepted" /\ pc[t] = "idle"
    /\ pc["poll"] = "sleep"
    /\ poll_status = 200
    /\ state.last_sync # NoTime

====
